---- MODULE Spec2Model ----
(***************************************************************************)
(* Model of src/main.py: the two CSV importers                             *)
(* (importar_csv_osciloscopio, importar_csv_simulador) and the driver      *)
(* main(), which imports, plots and overlays an analytical curve for two   *)
(* channels and then shows the figure.                                     *)
(*                                                                         *)
(* A file is a sequence of one-character strings; read_csv splits it into  *)
(* lines and fields and converts decimal-comma text to numbers, so that    *)
(* the importers work on what the parser really produces.  Numbers read    *)
(* from files are exact decimals num/den; the analytical curves are        *)
(* computed in fixed point with four decimals.                             *)
(***************************************************************************)
EXTENDS Integers, Sequences, FiniteSets, TLC

VARIABLES pc, status, chamada, stdout, trace, tempo, tensao

vars == <<pc, status, chamada, stdout, trace, tempo, tensao>>

(***************************************************************************)
(* Bounds of the generated input files.                                    *)
(***************************************************************************)
MaxCols == 6
MaxRows == 2

(***************************************************************************)
(* Text helpers.                                                           *)
(***************************************************************************)
Digits == {"0", "1", "2", "3", "4", "5", "6", "7", "8", "9"}

DigitVal(c) ==
    CASE c = "0" -> 0 [] c = "1" -> 1 [] c = "2" -> 2 [] c = "3" -> 3
      [] c = "4" -> 4 [] c = "5" -> 5 [] c = "6" -> 6 [] c = "7" -> 7
      [] c = "8" -> 8 [] c = "9" -> 9

\* The position of the k-th of the delimiters of s; 0 and Len(s) + 1 close
\* the two ends.
DelimAt(s, delims, k) ==
    IF k = 0 THEN 0
    ELSE IF k > Cardinality(delims) THEN Len(s) + 1
    ELSE CHOOSE i \in delims : Cardinality({j \in delims : j < i}) = k - 1

Fields(s, delims) ==
    [k \in 1..(Cardinality(delims) + 1) |->
        SubSeq(s, DelimAt(s, delims, k - 1) + 1, DelimAt(s, delims, k) - 1)]

\* The fields of the character sequence s between occurrences of d.
SplitOn(s, d) == Fields(s, {i \in 1..Len(s) : s[i] = d})

RECURSIVE Join(_)
\* The string made of the characters of s.
Join(s) == IF s = <<>> THEN "" ELSE Head(s) \o Join(Tail(s))

RECURSIVE JoinWith(_, _)
\* The fields fs written one after the other, separated by d.
JoinWith(fs, d) ==
    IF fs = <<>> THEN <<>>
    ELSE IF Len(fs) = 1 THEN fs[1]
    ELSE fs[1] \o <<d>> \o JoinWith(Tail(fs), d)

RECURSIVE Flatten(_)
Flatten(ss) == IF ss = <<>> THEN <<>> ELSE Head(ss) \o Flatten(Tail(ss))

RECURSIVE ToNat(_)
\* The number a sequence of digits denotes.
ToNat(ds) ==
    IF ds = <<>> THEN 0 ELSE 10 * ToNat(SubSeq(ds, 1, Len(ds) - 1)) + DigitVal(ds[Len(ds)])

RECURSIVE StripZeros(_)
\* ds without its trailing zeros.
StripZeros(ds) ==
    IF ds # <<>> /\ ds[Len(ds)] = "0" THEN StripZeros(SubSeq(ds, 1, Len(ds) - 1)) ELSE ds

Count(s, c) == Cardinality({i \in 1..Len(s) : s[i] = c})

(***************************************************************************)
(* Cells and tables (pandas DataFrame).                                    *)
(***************************************************************************)
NaN == [k |-> "nan", num |-> 0, den |-> 1, s |-> ""]
Num(n, d) == [k |-> "num", num |-> n, den |-> d, s |-> ""]
Str(f) == [k |-> "str", num |-> 0, den |-> 1, s |-> Join(f)]

\* pd.DataFrame(): zero rows, zero columns.
EmptyDataFrame == [columns |-> <<>>, rows |-> <<>>]

NoExc == ""

Ok(df) == [exc |-> NoExc, df |-> df]
Raise(e) == [exc |-> e, df |-> EmptyDataFrame]

\* A field is numeric text under the decimal separator dec: digits with at
\* most one separator and at least one digit.
IsDecimal(f, dec) ==
    /\ f # <<>>
    /\ \A i \in 1..Len(f) : f[i] \in Digits \cup {dec}
    /\ Count(f, dec) <= 1
    /\ \E i \in 1..Len(f) : f[i] \in Digits

\* Variant: the digits after the decimal separator are lost.
DecimalValue_nofrac(f, dec) == Num(ToNat(SplitOn(f, dec)[1]), 1)

\* The number with integer digits int and fraction digits frac.
Decimal(int, frac) == Num(ToNat(int \o frac), 10 ^ Len(frac))

DecimalParts(parts) ==
    Decimal(parts[1], IF Len(parts) > 1 THEN StripZeros(parts[2]) ELSE <<>>)

\* The exact decimal value of numeric text: "0,5" is 5/10, "1,0" is 1/1.
DecimalValue(f, dec) == DecimalParts(SplitOn(f, dec))

(***************************************************************************)
(* pandas operations used by the importers.                                *)
(***************************************************************************)
IsNonBlank(l) == l # <<>>

\* The leading fields of the data rows that belong to the index: those by
\* which the first data row is longer than the header.
Lead(header, data) ==
    IF data # <<>> /\ Len(data[1]) > Len(header) THEN Len(data[1]) - Len(header) ELSE 0

\* The text of row i, column j; a short row is padded with missing values.
Field(data, lead, i, j) ==
    IF j + lead <= Len(data[i]) THEN data[i][j + lead] ELSE <<>>

\* A column whose present cells are all numeric text is converted to numbers.
NumericColumn(data, lead, j, dec) ==
    \A i \in 1..Len(data) :
        Field(data, lead, i, j) = <<>> \/ IsDecimal(Field(data, lead, i, j), dec)

ConvertCell(f, numeric, dec) ==
    IF f = <<>> THEN NaN
    ELSE IF numeric THEN DecimalValue(f, dec)
    ELSE Str(f)

Cell(data, lead, i, j, dec) ==
    ConvertCell(Field(data, lead, i, j), NumericColumn(data, lead, j, dec), dec)

\* The table of a header and data rows; a row longer than the first data
\* row allows is a tokenizing error.
ParseTable(header, data, lead, dec) ==
    IF \E i \in 1..Len(data) : Len(data[i]) > Len(header) + lead
    THEN Raise("ParserError")
    ELSE Ok([columns |-> [j \in 1..Len(header) |-> Join(header[j])],
             rows    |-> [i \in 1..Len(data) |->
                             [j \in 1..Len(header) |-> Cell(data, lead, i, j, dec)]]])

ParseRows(header, data, dec) == ParseTable(header, data, Lead(header, data), dec)

\* The first non-blank line is the header, the others are the data rows.
ParseLines(lines, sep, dec) ==
    IF lines = <<>> THEN Raise("EmptyDataError")
    ELSE ParseRows(SplitOn(lines[1], sep),
                   [i \in 1..(Len(lines) - 1) |-> SplitOn(lines[i + 1], sep)], dec)

\* pd.read_csv(arquivo, sep=sep, decimal=dec) with the default options:
\* blank lines are skipped, the first line is the header, missing cells are
\* NaN, numeric columns are converted.
read_csv(file, sep, dec) ==
    IF ~file.exists THEN Raise("FileNotFoundError")
    ELSE ParseLines(SelectSeq(SplitOn(file.text, "\n"), IsNonBlank), sep, dec)

\* Variant: the slice stops one position early.
Slice_exclusive(cols, a, b) == {j \in 1..Len(cols) : a < j /\ j < b}

\* The positions of cols[a:b] (Python slice: clipped to the length).
Slice(cols, a, b) == {j \in 1..Len(cols) : a < j /\ j <= b}

RECURSIVE Pick(_, _, _)
\* The elements of s at the positions in keep, from position j on, in order.
Pick(s, keep, j) ==
    IF j > Len(s) THEN <<>>
    ELSE (IF j \in keep THEN <<s[j]>> ELSE <<>>) \o Pick(s, keep, j + 1)

\* df[labels]: the columns at the positions `which`.
getitem(df, which) ==
    [columns |-> Pick(df.columns, which, 1),
     rows    |-> [i \in 1..Len(df.rows) |-> Pick(df.rows[i], which, 1)]]

\* df.drop(columns=labels): every column but those at the positions `which`.
drop(df, which) == getitem(df, (1..Len(df.columns)) \ which)

\* Variant: a fresh table with the given columns replaces the data.
set_columns_reset(df, names) == Ok([columns |-> names, rows |-> <<>>])

\* Variant: no length check; the names go to the columns that exist.
set_columns_lenient(df, names) ==
    Ok([df EXCEPT !.columns = [j \in 1..Len(df.columns) |->
                                  IF j <= Len(names) THEN names[j] ELSE df.columns[j]]])

\* df.columns = names: a length mismatch raises ValueError.
set_columns(df, names) ==
    IF Len(names) # Len(df.columns) THEN Raise("ValueError")
    ELSE Ok([df EXCEPT !.columns = names])

HasNaN(row) == \E j \in 1..Len(row) : row[j].k = "nan"

IsComplete(row) == ~HasNaN(row)

\* df.dropna(): the rows without a missing value, in order.
dropna(df) == [df EXCEPT !.rows = SelectSeq(df.rows, IsComplete)]

\* Variant: infos shares its rows with df, which loses the same rows.
dropna_inplace_shared(infos, df) ==
    LET kept == {i \in 1..Len(infos.rows) : IsComplete(infos.rows[i])}
    IN  [infos |-> dropna(infos), df |-> [df EXCEPT !.rows = Pick(df.rows, kept, 1)]]

\* infos.dropna(inplace=True) at line 21, with both tables in scope: infos
\* loses its incomplete rows; df, a separate table since line 19, is untouched.
dropna_inplace(infos, df) == [infos |-> dropna(infos), df |-> df]

(***************************************************************************)
(* The importers.  A result is the returned table, the exception caught    *)
(* (NoExc if none) and the lines printed.                                  *)
(***************************************************************************)
Return(df, infos) == [df |-> df, infos |-> infos, exc |-> NoExc, out |-> <<>>]

\* Variant: the exception is swallowed without a diagnostic.
Except_silent(e) ==
    [df |-> EmptyDataFrame, infos |-> EmptyDataFrame, exc |-> e, out |-> <<>>]

\* Variant: the diagnostic is printed on two lines.
Except_twice(e) ==
    [df |-> EmptyDataFrame, infos |-> EmptyDataFrame, exc |-> e,
     out |-> << "Erro ao importar o arquivo:", e >>]

\* except Exception as e: print(...); return pd.DataFrame()
Except(e) ==
    [df |-> EmptyDataFrame, infos |-> EmptyDataFrame, exc |-> e,
     out |-> << "Erro ao importar o arquivo: " \o e >>]

\* Lines 22-24: infos is relabelled, df is returned.
Osc22(df, l22) ==
    IF l22.exc # NoExc THEN Except(l22.exc) ELSE Return(df, l22.df)

\* Line 21, on the result of line 20.
Osc21(l21) == Osc22(l21.df, set_columns(l21.infos, <<"parametro", "valor">>))

Osc20(infos, l20) ==
    IF l20.exc # NoExc THEN Except(l20.exc) ELSE Osc21(dropna_inplace(infos, l20.df))

\* Lines 18-20, on the table read at line 17.
Osc18(l17) ==
    IF l17.exc # NoExc THEN Except(l17.exc)
    ELSE Osc20(getitem(l17.df, Slice(l17.df.columns, 0, 2)),
               set_columns(drop(l17.df, Slice(l17.df.columns, 0, 3)), <<"tempo", "tensao">>))

importar_csv_osciloscopio(file) == Osc18(read_csv(file, ";", ","))

Sim42(l42) ==
    IF l42.exc # NoExc THEN Except(l42.exc) ELSE Return(l42.df, EmptyDataFrame)

\* Line 42, on the table read at line 41.
Sim41(l41) ==
    IF l41.exc # NoExc THEN Except(l41.exc)
    ELSE Sim42(set_columns(l41.df, <<"tempo", "tensao">>))

importar_csv_simulador(file) == Sim41(read_csv(file, "\t", ","))

(***************************************************************************)
(* Input files.  The driver reads each path once, so the content of a      *)
(* path is chosen when it is read.                                         *)
(***************************************************************************)
NoFile == [exists |-> FALSE, text |-> <<>>]
File(text) == [exists |-> TRUE, text |-> text]

HeaderNames == <<"a", "b", "c", "d", "e", "f", "g", "h">>

\* Rows of a generated file: metadata cell, time cell, voltage cell.  Metadata
\* and voltage may be missing; times and voltages differ from row to row.
Row(m, t, v) == [m |-> m, t |-> t, v |-> v]

RowChoices ==
    { Row(<<>>,            <<"0", ",", "0">>, <<"0", ",", "5">>),
      Row(<<"x", ",", "0">>, <<"1", ",", "5">>, <<"1", ",", "2", "3">>),
      Row(<<"x", ",", "0">>, <<"0", ",", "0">>, <<>>),
      Row(<<>>,            <<"2">>,           <<"1", ",", "2", "3">>) }

\* A row of w fields: voltage last, time before it, metadata in front.
RowFields(w, c) ==
    [j \in 1..w |-> IF j = w THEN c.v ELSE IF j = w - 1 THEN c.t ELSE c.m]

\* The text of a rectangular file of w columns written with separator sep.
GenText(sep, w, cs) ==
    Flatten(<< JoinWith([j \in 1..w |-> <<HeaderNames[j]>>], sep) \o <<"\n">> >>
            \o [i \in 1..Len(cs) |-> JoinWith(RowFields(w, cs[i]), sep) \o <<"\n">>])

RowSeqs == UNION {[1..n -> RowChoices] : n \in 0..MaxRows}

GenFiles ==
    {File(GenText(sep, w, cs)) : sep \in {";", "\t"}, w \in 1..MaxCols, cs \in RowSeqs}

\* "a;b;t;v\n1,0;x,0;0,0;0,5\n"
ScenarioFile ==
    File(<<"a", ";", "b", ";", "t", ";", "v", "\n",
           "1", ",", "0", ";", "x", ",", "0", ";", "0", ",", "0", ";", "0", ",", "5", "\n">>)

\* The same row with one more leading column.
ScenarioFile5 ==
    File(<<"a", ";", "b", ";", "c", ";", "t", ";", "v", "\n",
           "1", ",", "0", ";", "x", ",", "0", ";", ";", "0", ",", "0", ";", "0", ",", "5", "\n">>)

EmptyFile == File(<<>>)

\* Files whose second data row has one field too many.
RaggedOsc ==
    File(<<"a", ";", "b", ";", "c", ";", "t", ";", "v", "\n",
           ";", ";", ";", "0", ";", "5", "\n",
           ";", ";", ";", "1", ";", "5", ";", "9", "\n">>)

RaggedSim ==
    File(<<"t", "\t", "v", "\n", "0", "\t", "5", "\n", "1", "\t", "5", "\t", "9", "\n">>)

\* A simulator file whose voltage column is text.
TextSim == File(<<"t", "\t", "v", "\n", "0", "\t", "x", "\n">>)

Files ==
    GenFiles \cup {NoFile, EmptyFile, ScenarioFile, ScenarioFile5, RaggedOsc, RaggedSim, TextSim}

(***************************************************************************)
(* Plotting a table: df.plot(x="tempo", y="tensao", ...).                  *)
(***************************************************************************)
ColumnIndex(df, name) ==
    IF \E j \in 1..Len(df.columns) : df.columns[j] = name
    THEN CHOOSE j \in 1..Len(df.columns) : df.columns[j] = name
    ELSE 0

\* A column holds numeric data: it has cells and none of them is text.
IsNumericColumn(df, j) ==
    /\ df.rows # <<>>
    /\ \A i \in 1..Len(df.rows) : df.rows[i][j].k \in {"num", "nan"}

\* Variant: a table without the named columns plots as an empty series.
DataFramePlot_lenient(df) == NoExc

\* The exception df.plot raises (NoExc if none): KeyError when a named
\* column is missing, TypeError when the y column holds no numeric data.
DataFramePlot(df) ==
    IF ColumnIndex(df, "tempo") = 0 \/ ColumnIndex(df, "tensao") = 0 THEN "KeyError"
    ELSE IF ~IsNumericColumn(df, ColumnIndex(df, "tensao")) THEN "TypeError"
    ELSE NoExc

(***************************************************************************)
(* The analytical curves.  Time is counted in hundredths of a second,      *)
(* voltage and exponentials in units of 1/Scale.                           *)
(***************************************************************************)
Scale == 10 ^ 4

\* np.arange(0, 2, 0.01) in hundredths: start, stop, step.
ArangeStart == 0
ArangeStop == 200
ArangeStep == 1

\* np.arange(start, stop, step): ceil((stop - start) / step) points.
arange(start, stop, step) ==
    [i \in 1..((stop - start + step - 1) \div step) |-> start + (i - 1) * step]

\* a * b in fixed point, rounded to nearest.
Mult(a, b) == (a * b + Scale \div 2) \div Scale

RECURSIVE Taylor(_, _, _)
\* Sum of the alternating series of e^(-x) from the term `term` of index n on.
Taylor(x, term, n) ==
    IF term = 0 THEN 0
    ELSE term - Taylor(x, (term * x) \div (Scale * (n + 1)), n + 1)

RECURSIVE ExpNeg(_)
\* np.exp(-x) for x >= 0 in fixed point: exact at 0, by halving the
\* argument until the series converges fast.
ExpNeg(x) ==
    IF x = 0 THEN Scale
    ELSE IF x > Scale \div 8
         THEN Mult(ExpNeg(x \div 2), ExpNeg(x - x \div 2))
         ELSE Taylor(x, Scale, 0)

\* tempo * 4.51 and tempo * 10.08 for tempo t in hundredths.
Arg1(t) == (t * 45100) \div 100
Arg2(t) == (t * 100800) \div 100

\* Variant: the second exponential is added instead of subtracted.
Analitico1_sign(t) == Scale - Mult(9930, ExpNeg(Arg1(t))) + Mult(63, ExpNeg(Arg2(t)))

\* 1 - 0.993 * np.exp(-tempo * 4.51) - 0.0063 * np.exp(-tempo * 10.08)
Analitico1(t) == Scale - Mult(9930, ExpNeg(Arg1(t))) - Mult(63, ExpNeg(Arg2(t)))

\* 0.8159 * (np.exp(-tempo * 4.51) - np.exp(-tempo * 10.08))
Analitico2(t) == Mult(8159, ExpNeg(Arg1(t)) - ExpNeg(Arg2(t)))

(***************************************************************************)
(* The driver main(): its calls in source order.                           *)
(***************************************************************************)
Step(op, ch, arg) == [op |-> op, ch |-> ch, arg |-> arg]

\* Variant: channel 2 loads the oscilloscope table before the simulator table.
Steps_swapped ==
    << Step("importar_csv_simulador", 1, "dados/V1.txt"),
       Step("plot", 1, "Simulador"),
       Step("importar_csv_osciloscopio", 1, "dados/Osciloscopio - F0000CH2.csv"),
       Step("plot", 1, "Osciloscopio"),
       Step("analitico", 1, "Analitico"),
       Step("importar_csv_osciloscopio", 2, "dados/Osciloscopio - F0000CH1.csv"),
       Step("plot", 2, "Osciloscopio"),
       Step("importar_csv_simulador", 2, "dados/V2.txt"),
       Step("plot", 2, "Simulador"),
       Step("analitico", 2, "Analitico"),
       Step("show", 0, "") >>

Steps ==
    << Step("importar_csv_simulador", 1, "dados/V1.txt"),                         \* 54-55
       Step("plot", 1, "Simulador"),                                              \* 56
       Step("importar_csv_osciloscopio", 1, "dados/Osciloscopio - F0000CH2.csv"), \* 58-59
       Step("plot", 1, "Osciloscopio"),                                           \* 61
       Step("analitico", 1, "Analitico"),                                         \* 63-70
       Step("importar_csv_simulador", 2, "dados/V2.txt"),                         \* 72-73
       Step("plot", 2, "Simulador"),                                              \* 74
       Step("importar_csv_osciloscopio", 2, "dados/Osciloscopio - F0000CH1.csv"), \* 76-77
       Step("plot", 2, "Osciloscopio"),                                           \* 79
       Step("analitico", 2, "Analitico"),                                         \* 81-88
       Step("show", 0, "") >>                                                     \* 90

\* What main has done so far: one event per call, in order.
Event(op, ch, arg, exc) == [op |-> op, ch |-> ch, arg |-> arg, exc |-> exc]

NoCall ==
    [fn |-> "", arquivo |-> "", file |-> NoFile,
     df |-> EmptyDataFrame, infos |-> EmptyDataFrame, exc |-> NoExc, out |-> <<>>]

Call(fn, arquivo, file, r) ==
    [fn |-> fn, arquivo |-> arquivo, file |-> file,
     df |-> r.df, infos |-> r.infos, exc |-> r.exc, out |-> r.out]

Running(op) == status = "running" /\ pc <= Len(Steps) /\ Steps[pc].op = op

Init ==
    /\ pc = 1
    /\ status = "running"
    /\ chamada = NoCall
    /\ stdout = <<>>
    /\ trace = <<>>
    /\ tempo = <<>>
    /\ tensao = <<>>

\* df1 = importar_csv_simulador(arquivo)
ImportarSimulador ==
    /\ Running("importar_csv_simulador")
    /\ \E file \in Files :
          chamada' = Call(Steps[pc].op, Steps[pc].arg, file, importar_csv_simulador(file))
    /\ stdout' = stdout \o chamada'.out
    /\ trace' = Append(trace, Event(Steps[pc].op, Steps[pc].ch, Steps[pc].arg, chamada'.exc))
    /\ pc' = pc + 1
    /\ UNCHANGED <<status, tempo, tensao>>

\* df2 = importar_csv_osciloscopio(arquivo)
ImportarOsciloscopio ==
    /\ Running("importar_csv_osciloscopio")
    /\ \E file \in Files :
          chamada' = Call(Steps[pc].op, Steps[pc].arg, file, importar_csv_osciloscopio(file))
    /\ stdout' = stdout \o chamada'.out
    /\ trace' = Append(trace, Event(Steps[pc].op, Steps[pc].ch, Steps[pc].arg, chamada'.exc))
    /\ pc' = pc + 1
    /\ UNCHANGED <<status, tempo, tensao>>

\* df.plot(x="tempo", y="tensao", ..., ax=ax[ch-1], label=...) on the table
\* just imported.  An exception is not caught in main: the run ends.  The
\* table is not read again afterwards.
Plot ==
    /\ Running("plot")
    /\ trace' = Append(trace, Event("plot", Steps[pc].ch, Steps[pc].arg,
                                    DataFramePlot(chamada.df)))
    /\ IF trace'[Len(trace')].exc # NoExc
       THEN /\ status' = "raised"
            /\ UNCHANGED <<pc, chamada>>
       ELSE /\ pc' = pc + 1
            /\ chamada' = NoCall
            /\ UNCHANGED status
    /\ UNCHANGED <<stdout, tempo, tensao>>

\* The analytical curve of the channel over the grid, drawn on its subplot.
Analitico ==
    /\ Running("analitico")
    /\ tempo' = arange(ArangeStart, ArangeStop, ArangeStep)
    /\ tensao' = [i \in 1..Len(tempo') |->
                     IF Steps[pc].ch = 1 THEN Analitico1(tempo'[i]) ELSE Analitico2(tempo'[i])]
    /\ trace' = Append(trace, Event("plot", Steps[pc].ch, Steps[pc].arg, NoExc))
    /\ pc' = pc + 1
    /\ UNCHANGED <<status, chamada, stdout>>

\* plt.show()
Show ==
    /\ Running("show")
    /\ trace' = Append(trace, Event("show", 0, "", NoExc))
    /\ status' = "done"
    /\ pc' = pc + 1
    /\ UNCHANGED <<chamada, stdout, tempo, tensao>>

Next == ImportarSimulador \/ ImportarOsciloscopio \/ Plot \/ Analitico \/ Show

Spec == Init /\ [][Next]_vars

(***************************************************************************)
(* Vocabulary of the properties: the file of the last importer call, read  *)
(* as text.                                                                *)
(***************************************************************************)
Lines(file) == SelectSeq(SplitOn(file.text, "\n"), IsNonBlank)

\* The number of fields of the header line under the separator sep.
NCols(file, sep) == Len(SplitOn(Lines(file)[1], sep))

\* The number of data lines.
InputRows(file) == Len(Lines(file)) - 1

\* A well-formed file: it exists, has a header, and every line has as many
\* fields as the header.
WellFormed(file, sep) ==
    /\ file.exists
    /\ Lines(file) # <<>>
    /\ \A i \in 1..Len(Lines(file)) : Len(SplitOn(Lines(file)[i], sep)) = NCols(file, sep)

\* A readable file: it exists and read_csv parses it.
Readable(file, sep) == read_csv(file, sep, ",").exc = NoExc

Normalized == <<"tempo", "tensao">>

OscCall == chamada.fn = "importar_csv_osciloscopio"
SimCall == chamada.fn = "importar_csv_simulador"

IsImport(e) == e.op \in {"importar_csv_simulador", "importar_csv_osciloscopio"}

\* The imports that returned without an exception, as positions of trace.
OkImports == {k \in 1..Len(trace) : IsImport(trace[k]) /\ trace[k].exc = NoExc}

\* C1 as stated: every well-formed oscilloscope file with 3 or more columns
\* yields a table with exactly the columns tempo (time), tensao (voltage)
\* and as many rows as the file has data lines.
C1_Original ==
    (OscCall /\ WellFormed(chamada.file, ";") /\ NCols(chamada.file, ";") >= 3)
        => /\ chamada.df.columns = Normalized
           /\ Len(chamada.df.rows) = InputRows(chamada.file)

\* C1 amended: every well-formed oscilloscope file with exactly 5 columns
\* yields a table with exactly the columns tempo (time), tensao (voltage)
\* and as many rows as the file has data lines.
C1_FiveColumns ==
    (OscCall /\ WellFormed(chamada.file, ";") /\ NCols(chamada.file, ";") = 5)
        => /\ chamada.df.columns = Normalized
           /\ Len(chamada.df.rows) = InputRows(chamada.file)

C1_Witness ==
    /\ OscCall
    /\ WellFormed(chamada.file, ";")
    /\ NCols(chamada.file, ";") = 5
    /\ Len(chamada.df.rows) = 2
    /\ chamada.df.columns = Normalized

\* The one row {time: 0.0, voltage: 0.5}.
ScenarioRows == << <<Num(0, 1), Num(5, 10)>> >>

\* C2 as stated: the 4-column file a;b;t;v / 1,0;x,0;0,0;0,5 imports as one
\* row with time 0.0 and voltage 0.5.
C2_Original ==
    (OscCall /\ chamada.file = ScenarioFile)
        => chamada.df.columns = Normalized /\ chamada.df.rows = ScenarioRows

\* C2 amended: the 4-column file imports as the empty table with one
\* diagnostic; the 5-column file a;b;c;t;v / 1,0;x,0;;0,0;0,5 imports as
\* one row with time 0.0 and voltage 0.5 (the last two of 5 columns).
C2_Scenario ==
    /\ (OscCall /\ chamada.file = ScenarioFile)
          => chamada.df = EmptyDataFrame /\ Len(chamada.out) = 1
    /\ (OscCall /\ chamada.file = ScenarioFile5)
          => chamada.df.columns = Normalized /\ chamada.df.rows = ScenarioRows

C2_Witness == OscCall /\ chamada.file = ScenarioFile5 /\ Len(chamada.df.rows) = 1

\* The importer of the last call fails on its file: the file is missing,
\* does not parse, or has a column count the importer does not expect.
ImportFails ==
    \/ OscCall /\ (~Readable(chamada.file, ";") \/ NCols(chamada.file, ";") # 5)
    \/ SimCall /\ (~Readable(chamada.file, "\t") \/ NCols(chamada.file, "\t") # 2)

\* C3: an importer returns to main in every case; on a failure it returns
\* the table with zero rows and zero columns and prints exactly one
\* diagnostic line, and on a success it prints nothing.
C3_FailurePolicy ==
    (OscCall \/ SimCall)
        => /\ IsImport(trace[Len(trace)]) => status = "running"
           /\ IF ImportFails
              THEN /\ chamada.df = EmptyDataFrame
                   /\ Len(chamada.out) = 1
                   /\ Len(stdout) = 1
              ELSE /\ chamada.out = <<>>
                   /\ stdout = <<>>

C3_Witness ==
    /\ SimCall
    /\ ~chamada.file.exists
    /\ chamada.df = EmptyDataFrame
    /\ Len(stdout) = 1
    /\ status = "running"

\* C4: for a well-formed simulator file with exactly 2 columns the returned
\* table has the parsed file's rows, cell by cell and in order, under the
\* labels tempo (first column) and tensao (second column).
C4_SimulatorRelabel ==
    (SimCall /\ WellFormed(chamada.file, "\t") /\ NCols(chamada.file, "\t") = 2)
        => /\ chamada.df.columns = Normalized
           /\ Len(chamada.df.rows) = InputRows(chamada.file)
           /\ chamada.df.rows = read_csv(chamada.file, "\t", ",").df.rows

C4_Witness ==
    /\ SimCall
    /\ WellFormed(chamada.file, "\t")
    /\ NCols(chamada.file, "\t") = 2
    /\ Len(chamada.df.rows) = 2
    /\ chamada.df.rows[1] # chamada.df.rows[2]

\* C8: for a well-formed oscilloscope file with exactly 5 columns the
\* returned table has one row per data line, in order, holding the 4th
\* column as time and the 5th as voltage; rows whose metadata cells are
\* missing are dropped from infos only.
C8_PayloadKept ==
    (OscCall /\ WellFormed(chamada.file, ";") /\ NCols(chamada.file, ";") = 5)
        => LET parsed == read_csv(chamada.file, ";", ",").df.rows
           IN  /\ Len(chamada.df.rows) = InputRows(chamada.file)
               /\ \A i \in 1..Len(parsed) :
                      chamada.df.rows[i] = <<parsed[i][4], parsed[i][5]>>

C8_Witness ==
    /\ OscCall
    /\ WellFormed(chamada.file, ";")
    /\ NCols(chamada.file, ";") = 5
    /\ Len(chamada.df.rows) = 2
    /\ Len(chamada.infos.rows) < Len(chamada.df.rows)

\* C9: a returned table has exactly the columns tempo, tensao or has zero
\* rows and zero columns; a readable oscilloscope file without exactly 5
\* columns, and a readable simulator file without exactly 2, give the empty
\* table and a diagnostic.
C9_AllOrNothing ==
    (OscCall \/ SimCall)
        => /\ chamada.df.columns = Normalized \/ chamada.df = EmptyDataFrame
           /\ (OscCall /\ Readable(chamada.file, ";") /\ NCols(chamada.file, ";") # 5)
                 => chamada.df = EmptyDataFrame /\ Len(chamada.out) = 1
           /\ (SimCall /\ Readable(chamada.file, "\t") /\ NCols(chamada.file, "\t") # 2)
                 => chamada.df = EmptyDataFrame /\ Len(chamada.out) = 1

C9_Witness ==
    /\ OscCall
    /\ Readable(chamada.file, ";")
    /\ NCols(chamada.file, ";") = 6
    /\ InputRows(chamada.file) = 2
    /\ chamada.df = EmptyDataFrame
    /\ Len(chamada.out) = 1

\* C5: when an import fails, the plot call on its empty table raises, the
\* exception is not caught, and the run ends there: no later import or
\* plot, no display call.
C5_FailedImportEndsRun ==
    /\ [][(status = "running" /\ trace # <<>> /\ IsImport(trace[Len(trace)])
             /\ trace[Len(trace)].exc # NoExc)
            => /\ status' = "raised"
               /\ Len(trace') = Len(trace) + 1
               /\ trace'[Len(trace')].op = "plot"
               /\ trace'[Len(trace')].exc # NoExc]_vars
    /\ [][status # "raised"]_vars
    /\ [](status = "raised" => \A k \in 1..Len(trace) : trace[k].op # "show")

C5_Witness ==
    /\ status = "raised"
    /\ Len(trace) = 4
    /\ trace[3].op = "importar_csv_osciloscopio"
    /\ trace[3].exc # NoExc
    /\ trace[4].op = "plot"
    /\ trace[4].exc = "KeyError"

\* The calls of a run as (operation, channel, series label or path).
Calls == [k \in 1..Len(trace) |-> <<trace[k].op, trace[k].ch, trace[k].arg>>]

\* C6: a complete run loads, per channel, the simulator table, then the
\* oscilloscope table, then draws the analytical curve; channel 1 comes
\* before channel 2; the display call happens once, last, after the three
\* series of both channels are drawn.
C6_RunOrder ==
    status = "done"
        => Calls = << <<"importar_csv_simulador", 1, "dados/V1.txt">>,
                      <<"plot", 1, "Simulador">>,
                      <<"importar_csv_osciloscopio", 1, "dados/Osciloscopio - F0000CH2.csv">>,
                      <<"plot", 1, "Osciloscopio">>,
                      <<"plot", 1, "Analitico">>,
                      <<"importar_csv_simulador", 2, "dados/V2.txt">>,
                      <<"plot", 2, "Simulador">>,
                      <<"importar_csv_osciloscopio", 2, "dados/Osciloscopio - F0000CH1.csv">>,
                      <<"plot", 2, "Osciloscopio">>,
                      <<"plot", 2, "Analitico">>,
                      <<"show", 0, "">> >>

C6_Witness == status = "done" /\ Len(trace) = 11 /\ trace[11].op = "show"

\* The channel whose analytical curve was computed last (0 if none yet).
CurveChannel ==
    LET drawn == {k \in 1..Len(trace) : trace[k].arg = "Analitico"}
    IN  IF drawn = {} THEN 0
        ELSE trace[CHOOSE k \in drawn : \A j \in drawn : j <= k].ch

\* C7: the grid of both channels starts at 0 and advances by 0.01 (one
\* hundredth); at its first point the channel 1 curve is 0.0007 and the
\* channel 2 curve is 0.
C7_CurveAtZero ==
    CurveChannel # 0
        => /\ tempo[1] = 0
           /\ \A i \in 1..(Len(tempo) - 1) : tempo[i + 1] - tempo[i] = 1
           /\ Len(tensao) = Len(tempo)
           /\ CurveChannel = 1 => tensao[1] * 10000 = 7 * Scale
           /\ CurveChannel = 2 => tensao[1] = 0

C7_Witness == CurveChannel = 2 /\ Len(tempo) = 200 /\ tensao[1] = 0 /\ tensao[2] > 0

\* C10 as stated: a run prints at most one diagnostic, and when it has
\* ended the display call was reached exactly if all four imports succeeded.
C10_Original ==
    /\ Len(stdout) <= 1
    /\ status # "running" => (status = "done" <=> Cardinality(OkImports) = 4)

\* C10 amended: a run prints at most one diagnostic, and when it has ended
\* the display call was reached exactly if all four imports succeeded and
\* no plot call raised.
C10_DisplayReached ==
    /\ Len(stdout) <= 1
    /\ status # "running"
          => (status = "done"
                <=> /\ Cardinality(OkImports) = 4
                    /\ \A k \in 1..Len(trace) : trace[k].exc = NoExc)

C10_Witness ==
    /\ status = "raised"
    /\ Cardinality(OkImports) = 4
    /\ stdout = <<>>
    /\ trace[Len(trace)].exc = "TypeError"

====
